---- MODULE Spec2Model ----
(***************************************************************************)
(* Model of 6_mcp/mcp_date_server.py: an MCP server exposing two tools,    *)
(* get_current_date and get_date_with_format, through the handlers         *)
(* list_tools and call_tool.                                               *)
(*                                                                         *)
(* Python strings are modelled as sequences of one-character strings, so   *)
(* that prefixes, embedding and formatting are computed, not assumed.      *)
(***************************************************************************)
EXTENDS Integers, Sequences, FiniteSets, TLC

VARIABLES
    server,         \* the module-level Server instance and its registered handlers
    clock,          \* index of the wall-clock sample datetime.now() returns
    strictLibc,     \* whether the platform's C strftime rejects unknown directives
    calls,          \* call_tool invocations: request, position, response
    listed          \* the distinct results list_tools has returned so far

vars == <<server, clock, strictLibc, calls, listed>>

----------------------------------------------------------------------------
(* Bounds of the model *)

\* number of call_tool invocations a run issues
MaxCalls == 2

----------------------------------------------------------------------------
(* Text helpers *)

StartsWith(s, p) == Len(s) >= Len(p) /\ SubSeq(s, 1, Len(p)) = p

EndsWith(s, p) == Len(s) >= Len(p) /\ SubSeq(s, Len(s) - Len(p) + 1, Len(s)) = p

Digits == <<"0","1","2","3","4","5","6","7","8","9">>

Digit(n) == Digits[n + 1]

\* "%02d" % n
Pad2(n) == <<Digit((n \div 10) % 10), Digit(n % 10)>>

\* "%04d" % n
Pad4(n) == Pad2(n \div 100) \o Pad2(n % 100)

----------------------------------------------------------------------------
(* The wall clock: datetime.now() *)

ClockSamples ==
    << [year |-> 2024, month |-> 12, day |-> 31, hour |-> 23, minute |-> 59, second |-> 59],
       [year |-> 2025, month |-> 1,  day |-> 1,  hour |-> 0,  minute |-> 0,  second |-> 0] >>

datetime_now == ClockSamples[clock]

----------------------------------------------------------------------------
(* datetime.strftime *)

MonthNames ==
    << <<"J","a","n","u","a","r","y">>,
       <<"F","e","b","r","u","a","r","y">>,
       <<"M","a","r","c","h">>,
       <<"A","p","r","i","l">>,
       <<"M","a","y">>,
       <<"J","u","n","e">>,
       <<"J","u","l","y">>,
       <<"A","u","g","u","s","t">>,
       <<"S","e","p","t","e","m","b","e","r">>,
       <<"O","c","t","o","b","e","r">>,
       <<"N","o","v","e","m","b","e","r">>,
       <<"D","e","c","e","m","b","e","r">> >>

\* the conversion specifiers the model renders (a naive datetime has no zone: %Z is empty)
Directives == {"Y", "m", "d", "H", "M", "S", "B", "I", "p", "Z", "%"}

Hour12(h) == IF h % 12 = 0 THEN 12 ELSE h % 12

RenderDirective(dt, d) ==
    CASE d = "Y" -> Pad4(dt.year)
      [] d = "m" -> Pad2(dt.month)
      [] d = "d" -> Pad2(dt.day)
      [] d = "H" -> Pad2(dt.hour)
      [] d = "M" -> Pad2(dt.minute)
      [] d = "S" -> Pad2(dt.second)
      [] d = "B" -> MonthNames[dt.month]
      [] d = "I" -> Pad2(Hour12(dt.hour))
      [] d = "p" -> IF dt.hour < 12 THEN <<"A","M">> ELSE <<"P","M">>
      [] d = "Z" -> <<>>
      [] d = "%" -> <<"%">>

Rendered(text) == [kind |-> "ok", text |-> text]

Raised(exc, msg) == [kind |-> exc, text |-> msg]

INVALID_FORMAT_MSG ==
    <<"I","n","v","a","l","i","d"," ","f","o","r","m","a","t"," ","s","t","r","i","n","g">>

NOT_STR_MSG ==
    <<"s","t","r","f","t","i","m","e","(",")"," ","a","r","g","u","m","e","n","t"," ","1"," ",
      "m","u","s","t"," ","b","e"," ","s","t","r",","," ","n","o","t"," ","i","n","t">>

\* the scan of the format by the C library; strict: it rejects what it does not know
RECURSIVE ScanFormat(_, _, _)
ScanFormat(dt, fmt, strict) ==
    IF fmt = <<>> THEN Rendered(<<>>)
    ELSE IF Head(fmt) # "%" THEN
        LET rest == ScanFormat(dt, Tail(fmt), strict)
        IN  IF rest.kind = "ok" THEN Rendered(<<Head(fmt)>> \o rest.text) ELSE rest
    ELSE IF Len(fmt) = 1 THEN
        IF strict THEN Raised("ValueError", INVALID_FORMAT_MSG) ELSE Rendered(<<"%">>)
    ELSE IF fmt[2] \in Directives THEN
        LET rest == ScanFormat(dt, SubSeq(fmt, 3, Len(fmt)), strict)
        IN  IF rest.kind = "ok" THEN Rendered(RenderDirective(dt, fmt[2]) \o rest.text)
            ELSE rest
    ELSE IF strict THEN Raised("ValueError", INVALID_FORMAT_MSG)
    ELSE
        LET rest == ScanFormat(dt, SubSeq(fmt, 3, Len(fmt)), strict)
        IN  IF rest.kind = "ok" THEN Rendered(<<"%", fmt[2]>> \o rest.text) ELSE rest

\* dt.strftime(format) on a platform whose C library is strict or not;
\* format is a JSON value [type, val]
strftime_on(dt, format, strict) ==
    IF format.type # "string" THEN Raised("TypeError", NOT_STR_MSG)
    ELSE ScanFormat(dt, format.val, strict)

\* dt.strftime(format) on the platform the server runs on
strftime(dt, format) == strftime_on(dt, format, strictLibc)

----------------------------------------------------------------------------
(* JSON values and argument maps (Dict[str, Any]) *)

Str(chars) == [type |-> "string", val |-> chars]

Int42 == [type |-> "integer", val |-> <<"4","2">>]

EmptyDict == [k \in {} |-> Int42]

\* arguments.get(key, default)
dict_get(arguments, key, default) ==
    IF key \in DOMAIN arguments THEN arguments[key] ELSE default

----------------------------------------------------------------------------
(* server = Server("date-server") and the handler list_tools *)

SERVER_NAME == <<"d","a","t","e","-","s","e","r","v","e","r">>

GET_CURRENT_DATE == <<"g","e","t","_","c","u","r","r","e","n","t","_","d","a","t","e">>

GET_DATE_WITH_FORMAT ==
    <<"g","e","t","_","d","a","t","e","_","w","i","t","h","_","f","o","r","m","a","t">>

\* the "default" declared for "format" in the inputSchema
SCHEMA_DEFAULT_FORMAT ==
    <<"%","Y","-","%","m","-","%","d"," ","%","H",":","%","M",":","%","S">>

Tool(name, description, inputSchema) ==
    [name |-> name, description |-> description, inputSchema |-> inputSchema]

GetCurrentDateTool ==
    Tool(GET_CURRENT_DATE,
         "Get the current date and time.\n\n    Returns:\n        The current date and time in a human-readable format",
         [type |-> "object",
          properties |-> EmptyDict,
          required |-> <<>>,
          additionalProperties |-> FALSE])

GetDateWithFormatTool ==
    Tool(GET_DATE_WITH_FORMAT,
         "Get the current date with a specific format.\n\n    Args:\n        format: The format string (e.g., '%Y-%m-%d', '%B %d, %Y')",
         [type |-> "object",
          properties |->
              [format |-> [type |-> "string",
                           description |-> "The datetime format string",
                           default |-> SCHEMA_DEFAULT_FORMAT]],
          required |-> <<>>,
          additionalProperties |-> FALSE])

\* a changed list_tools: the second descriptor was never added
list_tools_first_only == <<GetCurrentDateTool>>

\* a changed list_tools: the tool used last is listed first
list_tools_recent_first ==
    IF \E i \in 1..Len(calls) : calls[i].pc = "done" /\ calls[i].name = GET_DATE_WITH_FORMAT
    THEN <<GetDateWithFormatTool, GetCurrentDateTool>>
    ELSE <<GetCurrentDateTool, GetDateWithFormatTool>>

list_tools == <<GetCurrentDateTool, GetDateWithFormatTool>>

----------------------------------------------------------------------------
(* The handler call_tool *)

\* the pattern of the f-string in the get_current_date branch
CURRENT_DATE_PATTERN ==
    <<"%","B"," ","%","d",","," ","%","Y"," ","a","t"," ","%","I",":","%","M"," ","%","p">>

CURRENT_DATE_PREFIX ==
    <<"C","u","r","r","e","n","t"," ","d","a","t","e"," ","a","n","d"," ",
      "t","i","m","e",":"," ">>

\* a changed fallback: the date without the time
FALLBACK_FORMAT_date_only == <<"%","Y","-","%","m","-","%","d">>

\* the fallback of arguments.get("format", ...)
FALLBACK_FORMAT ==
    <<"%","Y","-","%","m","-","%","d"," ","%","H",":","%","M",":","%","S">>

INVALID_FORMAT_PREFIX ==
    <<"E","r","r","o","r",":"," ","I","n","v","a","l","i","d"," ","f","o","r","m","a","t"," ",
      "s","t","r","i","n","g"," ","-"," ">>

UNKNOWN_TOOL_PREFIX ==
    <<"E","r","r","o","r",":"," ","U","n","k","n","o","w","n"," ","t","o","o","l"," ","'">>

TextContent(text) == [type |-> "text", text |-> text]

\* how an execution of call_tool ends: the branch it took, and what it returned or raised
Returns(branch, content) ==
    [kind |-> "return", branch |-> branch, content |-> content, exc |-> "none", msg |-> <<>>]

Raises(branch, exc, msg) ==
    [kind |-> "raise", branch |-> branch, content |-> <<>>, exc |-> exc, msg |-> msg]

\* if name == "get_current_date":
get_current_date(arguments) ==
    LET current_datetime == datetime_now
        formatted == strftime(current_datetime, Str(CURRENT_DATE_PATTERN))
    IN  IF formatted.kind = "ok"
        THEN Returns("get_current_date",
                     <<TextContent(CURRENT_DATE_PREFIX \o formatted.text)>>)
        ELSE Raises("get_current_date", formatted.kind, formatted.text)

\* a changed branch: no try/except around strftime
get_date_with_format_no_except(arguments) ==
    LET format_string == dict_get(arguments, "format", Str(FALLBACK_FORMAT))
        formatted == strftime(datetime_now, format_string)
    IN  IF formatted.kind = "ok"
        THEN Returns("get_date_with_format", <<TextContent(formatted.text)>>)
        ELSE Raises("get_date_with_format", formatted.kind, formatted.text)

\* a changed branch: except Exception instead of except ValueError
get_date_with_format_catch_all(arguments) ==
    LET format_string == dict_get(arguments, "format", Str(FALLBACK_FORMAT))
        formatted == strftime(datetime_now, format_string)
    IN  IF formatted.kind = "ok"
        THEN Returns("get_date_with_format", <<TextContent(formatted.text)>>)
        ELSE Returns("get_date_with_format",
                     <<TextContent(INVALID_FORMAT_PREFIX \o formatted.text)>>)

\* a changed branch: the format of the previous call is kept in a module-level global
get_date_with_format_sticky(arguments) ==
    LET earlier == {i \in 1..Len(calls) :
                        /\ calls[i].pc = "done"
                        /\ calls[i].name = GET_DATE_WITH_FORMAT
                        /\ "format" \in DOMAIN calls[i].arguments}
        remembered == IF earlier = {} THEN Str(FALLBACK_FORMAT)
                      ELSE calls[CHOOSE i \in earlier : \A j \in earlier : j <= i].arguments["format"]
        format_string == dict_get(arguments, "format", remembered)
        formatted == strftime(datetime_now, format_string)
    IN  IF formatted.kind = "ok"
        THEN Returns("get_date_with_format", <<TextContent(formatted.text)>>)
        ELSE IF formatted.kind = "ValueError"
        THEN Returns("get_date_with_format",
                     <<TextContent(INVALID_FORMAT_PREFIX \o formatted.text)>>)
        ELSE Raises("get_date_with_format", formatted.kind, formatted.text)

\* a changed branch: the closed schema is enforced before the format is read
get_date_with_format_closed_schema(arguments) ==
    LET format_string == dict_get(arguments, "format", Str(FALLBACK_FORMAT))
        formatted == strftime(datetime_now, format_string)
    IN  IF DOMAIN arguments \subseteq {"format"} /\ formatted.kind = "ok"
        THEN Returns("get_date_with_format", <<TextContent(formatted.text)>>)
        ELSE Returns("get_date_with_format",
                     <<TextContent(INVALID_FORMAT_PREFIX \o INVALID_FORMAT_MSG)>>)

\* elif name == "get_date_with_format":
get_date_with_format(arguments) ==
    LET format_string == dict_get(arguments, "format", Str(FALLBACK_FORMAT))
        current_datetime == datetime_now
        formatted == strftime(current_datetime, format_string)
    IN  IF formatted.kind = "ok"
        THEN Returns("get_date_with_format", <<TextContent(formatted.text)>>)
        ELSE IF formatted.kind = "ValueError"
        THEN Returns("get_date_with_format",
                     <<TextContent(INVALID_FORMAT_PREFIX \o formatted.text)>>)
        ELSE Raises("get_date_with_format", formatted.kind, formatted.text)

\* a changed branch: a handler table indexed by name, with no default
unknown_tool_key_error(name) == Raises("else", "KeyError", name)

\* a changed branch: the message without the "Error:" prefix
unknown_tool_no_prefix(name) ==
    Returns("else", <<TextContent(<<"U","n","k","n","o","w","n"," ","t","o","o","l"," ","'">>
                                  \o name \o <<"'">>)>>)

\* else:
unknown_tool(name) ==
    Returns("else", <<TextContent(UNKNOWN_TOOL_PREFIX \o name \o <<"'">>)>>)

call_tool(name, arguments) ==
    IF name = GET_CURRENT_DATE THEN get_current_date(arguments)
    ELSE IF name = GET_DATE_WITH_FORMAT THEN get_date_with_format(arguments)
    ELSE unknown_tool(name)

----------------------------------------------------------------------------
(* The requests a client sends *)

ToolNames ==
    { GET_CURRENT_DATE,
      GET_DATE_WITH_FORMAT,
      <<"g","e","t","_","d","a","t","e">> }

FormatStrings ==
    { <<"E","r","r","o","r",":"," ","%","Y">>,
      <<"%","Q">> }

ArgumentMaps ==
    {EmptyDict}
    \cup {[format |-> Str(f)] : f \in FormatStrings}
    \cup {[format |-> Int42]}
    \cup {[format |-> Str(<<"%","Y","-","%","m","-","%","d">>), tz |-> Str(<<"U","T","C">>)]}

----------------------------------------------------------------------------
(* The state machine *)

NoResult == [kind |-> "none", branch |-> "none", content |-> <<>>, exc |-> "none", msg |-> <<>>]

Init ==
    /\ server = [name |-> SERVER_NAME, handlers |-> {"list_tools", "call_tool"}]
    /\ clock = 1
    /\ strictLibc \in BOOLEAN
    /\ calls = <<>>
    /\ listed = {}

\* the wall clock advances
Tick ==
    /\ clock < Len(ClockSamples)
    /\ clock' = clock + 1
    /\ UNCHANGED <<server, strictLibc, calls, listed>>

\* a tools/list request: the transport runs list_tools and sends its result
ListTools ==
    /\ "list_tools" \in server.handlers
    /\ listed' = listed \cup {list_tools}
    /\ UNCHANGED <<server, clock, strictLibc, calls>>

\* a tools/call request arrives; its task is created and has not run yet
ReceiveCall(name, arguments) ==
    /\ Len(calls) < MaxCalls
    /\ calls' = Append(calls, [name |-> name, arguments |-> arguments, pc |-> "pending",
                               servedAt |-> 0, result |-> NoResult])
    /\ UNCHANGED <<server, clock, strictLibc, listed>>

\* a changed step: the request being served is kept in one module-level variable,
\* overwritten by each arriving request
HandleCall_shared_request(i) ==
    /\ "call_tool" \in server.handlers
    /\ calls[i].pc = "pending"
    /\ calls' = [calls EXCEPT ![i].pc = "done",
                              ![i].servedAt = clock,
                              ![i].result = call_tool(calls[Len(calls)].name,
                                                      calls[Len(calls)].arguments)]
    /\ UNCHANGED <<server, clock, strictLibc, listed>>

\* the event loop runs a pending task: call_tool has no await and runs to its end
HandleCall(i) ==
    /\ "call_tool" \in server.handlers
    /\ calls[i].pc = "pending"
    /\ calls' = [calls EXCEPT ![i].pc = "done",
                              ![i].servedAt = clock,
                              ![i].result = call_tool(calls[i].name, calls[i].arguments)]
    /\ UNCHANGED <<server, clock, strictLibc, listed>>

Next ==
    \/ Tick
    \/ ListTools
    \/ \E name \in ToolNames, arguments \in ArgumentMaps : ReceiveCall(name, arguments)
    \/ \E i \in 1..Len(calls) : HandleCall(i)

Spec == Init /\ [][Next]_vars

----------------------------------------------------------------------------
(* Vocabulary of the properties *)

Done == {i \in 1..Len(calls) : calls[i].pc = "done"}

ERROR_PREFIX == <<"E","r","r","o","r",":">>

\* the call returned normally with exactly one text content item
ReturnedOneText(c) ==
    /\ c.result.kind = "return"
    /\ Len(c.result.content) = 1
    /\ c.result.content[1].type = "text"

TextOf(c) == c.result.content[1].text

NamesOf(tools) == [k \in DOMAIN tools |-> tools[k].name]

IsListedIn(tools, name) == \E k \in DOMAIN tools : tools[k].name = name

SchemaOf(name) == (CHOOSE k \in DOMAIN list_tools : list_tools[k].name = name)

\* the formats a call of the model can hand to strftime
KnownFormats ==
    {a["format"] : a \in {m \in ArgumentMaps : "format" \in DOMAIN m}}
    \cup {Str(CURRENT_DATE_PATTERN), Str(SCHEMA_DEFAULT_FORMAT)}

\* strftime tabulated over the platforms, clock values and formats of the model
RenderingTable ==
    [strict \in BOOLEAN |->
        [at \in 1..Len(ClockSamples) |->
            [format \in KnownFormats |-> strftime_on(ClockSamples[at], format, strict)]]]

\* what strftime gives, on the platform of the run, for format at clock value at
Rendering(at, format) == RenderingTable[strictLibc][at][format]

\* what the handler's strftime call did for call c: rendered, or the fault it raised
HandlerOutcome(c) ==
    IF c.name = GET_CURRENT_DATE
    THEN Rendering(c.servedAt, Str(CURRENT_DATE_PATTERN))
    ELSE IF c.name = GET_DATE_WITH_FORMAT
    THEN Rendering(c.servedAt,
                   dict_get(c.arguments, "format",
                            Str(list_tools[SchemaOf(c.name)].inputSchema.properties.format.default)))
    ELSE Rendered(<<>>)

\* the response the contract of the named tool gives to request c at the time it was served
OwnOutput(c) ==
    LET out == HandlerOutcome(c)
    IN  IF c.name = GET_CURRENT_DATE
        THEN Returns("get_current_date", <<TextContent(CURRENT_DATE_PREFIX \o out.text)>>)
        ELSE IF c.name = GET_DATE_WITH_FORMAT
        THEN CASE out.kind = "ok" ->
                    Returns("get_date_with_format", <<TextContent(out.text)>>)
               [] out.kind = "ValueError" ->
                    Returns("get_date_with_format",
                            <<TextContent(INVALID_FORMAT_PREFIX \o out.text)>>)
               [] OTHER ->
                    Raises("get_date_with_format", out.kind, out.text)
        ELSE Returns("else", <<TextContent(UNKNOWN_TOOL_PREFIX \o c.name \o <<"'">>)>>)

\* the invocation ended in a handled failure: UnknownTool or InvalidArgument
HandledFailure(c) ==
    \/ c.name \notin {GET_CURRENT_DATE, GET_DATE_WITH_FORMAT}
    \/ c.name = GET_DATE_WITH_FORMAT /\ HandlerOutcome(c).kind = "ValueError"

\* the arguments break the input schema the tool declares
ViolatesSchema(c) ==
    LET schema == list_tools[SchemaOf(c.name)].inputSchema
    IN  \/ /\ ~schema.additionalProperties
           /\ \E key \in DOMAIN c.arguments : key \notin DOMAIN schema.properties
        \/ \E key \in DOMAIN c.arguments \cap DOMAIN schema.properties :
               c.arguments[key].type # schema.properties[key].type

\* the arguments without the properties the schema does not declare
DeclaredOnly(c) ==
    LET declared == DOMAIN list_tools[SchemaOf(c.name)].inputSchema.properties
    IN  [c EXCEPT !.arguments = [key \in DOMAIN c.arguments \cap declared |-> c.arguments[key]]]

----------------------------------------------------------------------------
(* Properties *)

\* C1: a call naming a tool other than get_current_date and get_date_with_format
\* returns normally, whatever its arguments, with exactly one text item whose text
\* is Error: Unknown tool '<name>' with the requested name in it.
C1_UnknownToolReported ==
    \A i \in Done :
        calls[i].name \notin {GET_CURRENT_DATE, GET_DATE_WITH_FORMAT} =>
            /\ ReturnedOneText(calls[i])
            /\ TextOf(calls[i]) = UNKNOWN_TOOL_PREFIX \o calls[i].name \o <<"'">>

C1_Witness ==
    \E i \in Done :
        /\ calls[i].name \notin {GET_CURRENT_DATE, GET_DATE_WITH_FORMAT}
        /\ calls[i].arguments # EmptyDict
        /\ calls[i].result.kind = "return"

\* C2: a get_date_with_format call whose "format" strftime rejects as invalid returns
\* normally with a single text item that begins with "Error:" and ends with the
\* message of the underlying error; nothing is raised out of call_tool.
C2_InvalidFormatIsText ==
    \A i \in Done :
        ( /\ calls[i].name = GET_DATE_WITH_FORMAT
          /\ "format" \in DOMAIN calls[i].arguments
          /\ Rendering(calls[i].servedAt, calls[i].arguments["format"]).kind
                 = "ValueError" ) =>
            /\ ReturnedOneText(calls[i])
            /\ StartsWith(TextOf(calls[i]), ERROR_PREFIX)
            /\ EndsWith(TextOf(calls[i]),
                        Rendering(calls[i].servedAt, calls[i].arguments["format"]).text)

C2_Witness ==
    \E i \in Done :
        /\ calls[i].name = GET_DATE_WITH_FORMAT
        /\ "format" \in DOMAIN calls[i].arguments
        /\ Rendering(calls[i].servedAt, calls[i].arguments["format"]).kind = "ValueError"
        /\ calls[i].result.kind = "return"
        /\ EndsWith(TextOf(calls[i]), INVALID_FORMAT_MSG)

\* C3 as stated: the text of a response begins with "Error:" if and only if the
\* invocation ended in a handled failure (UnknownTool or InvalidArgument).
C3_ErrorPrefixIffHandledFailure ==
    \A i \in Done :
        calls[i].result.kind = "return" =>
            (StartsWith(TextOf(calls[i]), ERROR_PREFIX) <=> HandledFailure(calls[i]))

\* C3 amended: every handled failure is a text beginning with "Error:"; a successful
\* get_current_date never begins with "Error:", nor does a successful
\* get_date_with_format called without a "format" argument.
C3_HandledFailuresCarryPrefix ==
    \A i \in Done :
        /\ HandledFailure(calls[i]) =>
               ReturnedOneText(calls[i]) /\ StartsWith(TextOf(calls[i]), ERROR_PREFIX)
        /\ ( /\ ~HandledFailure(calls[i])
             /\ calls[i].result.kind = "return"
             /\ \/ calls[i].name = GET_CURRENT_DATE
                \/ "format" \notin DOMAIN calls[i].arguments ) =>
               ~StartsWith(TextOf(calls[i]), ERROR_PREFIX)

C3_Witness ==
    \E i, j \in Done :
        /\ HandledFailure(calls[i])
        /\ StartsWith(TextOf(calls[i]), ERROR_PREFIX)
        /\ ~HandledFailure(calls[j])
        /\ calls[j].result.kind = "return"
        /\ ~StartsWith(TextOf(calls[j]), ERROR_PREFIX)

\* C4: a fault of the handler other than the ValueError of a rejected format is not
\* turned into a text result: it leaves call_tool as it was raised; every format that
\* strftime rejects with a ValueError comes back as text content and is not raised.
C4_OnlyValueErrorIsCaught ==
    \A i \in Done :
        LET out == HandlerOutcome(calls[i])
        IN  /\ out.kind = "ValueError" =>
                   ReturnedOneText(calls[i]) /\ calls[i].result.exc = "none"
            /\ out.kind \notin {"ok", "ValueError"} =>
                   /\ calls[i].result.kind = "raise"
                   /\ calls[i].result.content = <<>>
                   /\ calls[i].result.exc = out.kind
                   /\ calls[i].result.msg = out.text
            /\ calls[i].result.kind = "raise" => out.kind \notin {"ok", "ValueError"}

C4_Witness ==
    \E i, j \in Done :
        /\ HandlerOutcome(calls[i]).kind = "ValueError"
        /\ calls[i].result.kind = "return"
        /\ HandlerOutcome(calls[j]).kind = "TypeError"
        /\ calls[j].result.kind = "raise"

\* C5: the names list_tools returns and the names call_tool dispatches to a handler
\* are the same: a call is answered by a handler branch exactly when its name is
\* listed, and no name is listed twice.
C5_ListedIffDispatched ==
    \A tools \in listed :
        /\ \A i \in Done :
               IsListedIn(tools, calls[i].name) <=> calls[i].result.branch # "else"
        /\ \A k1, k2 \in DOMAIN tools : tools[k1].name = tools[k2].name => k1 = k2

C5_Witness ==
    /\ listed # {}
    /\ \E i, j \in Done :
           /\ calls[i].result.branch = "get_date_with_format"
           /\ calls[j].result.branch = "else"

\* C6: whatever calls came before, list_tools returns the same non-empty list:
\* get_current_date, then get_date_with_format, with distinct names.
C6_ListIsStable ==
    /\ Cardinality(listed) <= 1
    /\ \A tools \in listed :
           /\ Len(tools) > 0
           /\ NamesOf(tools) = <<GET_CURRENT_DATE, GET_DATE_WITH_FORMAT>>
           /\ \A k1, k2 \in DOMAIN tools : tools[k1].name = tools[k2].name => k1 = k2

C6_Witness ==
    /\ listed # {}
    /\ \E i \in Done : calls[i].name = GET_DATE_WITH_FORMAT

\* C7: get_date_with_format called without "format" renders with the default the
\* inputSchema declares for "format": the result is the text strftime gives for that
\* default at the clock value of the call.
C7_MissingFormatUsesSchemaDefault ==
    \A i \in Done :
        ( /\ calls[i].name = GET_DATE_WITH_FORMAT
          /\ "format" \notin DOMAIN calls[i].arguments ) =>
            LET declared == list_tools[SchemaOf(GET_DATE_WITH_FORMAT)]
                                .inputSchema.properties.format.default
                explicit == Rendering(calls[i].servedAt, Str(declared))
            IN  /\ explicit.kind = "ok"
                /\ ReturnedOneText(calls[i])
                /\ TextOf(calls[i]) = explicit.text

C7_Witness ==
    \E i \in Done :
        /\ calls[i].name = GET_DATE_WITH_FORMAT
        /\ "format" \notin DOMAIN calls[i].arguments
        /\ calls[i].servedAt = Len(ClockSamples)
        /\ Len(TextOf(calls[i])) = 19

\* C8: of two invocations naming different tools, each response is the output of the
\* tool named in its own request, computed from its own arguments at the time it ran,
\* in whatever order the two pending tasks were run.
C8_NoCrossContamination ==
    \A i, j \in Done :
        (i # j /\ calls[i].name # calls[j].name) =>
            /\ calls[i].result = OwnOutput(calls[i])
            /\ calls[j].result = OwnOutput(calls[j])

\* the later request ran to its end while the earlier one was still pending
C8_Witness ==
    \E i, j \in Done :
        /\ i < j
        /\ calls[i].name # calls[j].name
        /\ calls[j].servedAt < calls[i].servedAt

\* C9: an invocation changes nothing but its own response, and its result is the
\* function OwnOutput of its name, its arguments and the clock value when it ran,
\* whatever was listed or called before.
C9_Stateless ==
    /\ [](\A i \in Done : calls[i].result = OwnOutput(calls[i]))
    /\ [][\A i \in 1..Len(calls) :
              (calls[i].pc = "pending" /\ calls'[i].pc = "done") =>
                  /\ server' = server
                  /\ listed' = listed
                  /\ Len(calls') = Len(calls)
                  /\ \A j \in 1..Len(calls) : j # i => calls'[j] = calls[j]
                  /\ calls'[i].name = calls[i].name
                  /\ calls'[i].arguments = calls[i].arguments]_vars

C9_Witness ==
    /\ listed # {}
    /\ \E i, j \in Done :
           /\ i < j
           /\ calls[i].name = GET_DATE_WITH_FORMAT
           /\ "format" \in DOMAIN calls[i].arguments
           /\ calls[j].name = GET_DATE_WITH_FORMAT
           /\ "format" \notin DOMAIN calls[j].arguments
           /\ calls[i].servedAt <= calls[j].servedAt

\* C10 as stated: arguments that break the declared schema of a registered tool (a
\* property the closed schema does not declare, a "format" that is not a string)
\* produce a handled "Error:" text result.
C10_SchemaViolationsRejected ==
    \A i \in Done :
        ( /\ IsListedIn(list_tools, calls[i].name)
          /\ ViolatesSchema(calls[i]) ) =>
            /\ ReturnedOneText(calls[i])
            /\ StartsWith(TextOf(calls[i]), ERROR_PREFIX)

\* C10 amended: call_tool does not enforce the declared schema. Properties the
\* schema does not declare are ignored: the result is the one of the same call
\* without them. A "format" that is not a string is not answered with text: the
\* TypeError of strftime leaves call_tool.
C10_SchemaNotEnforced ==
    \A i \in Done :
        ( /\ IsListedIn(list_tools, calls[i].name)
          /\ ViolatesSchema(calls[i]) ) =>
            /\ calls[i].result = OwnOutput(DeclaredOnly(calls[i]))
            /\ ( /\ calls[i].name = GET_DATE_WITH_FORMAT
                 /\ "format" \in DOMAIN calls[i].arguments
                 /\ calls[i].arguments["format"].type # "string" ) =>
                   /\ calls[i].result.kind = "raise"
                   /\ calls[i].result.exc = "TypeError"

C10_Witness ==
    \E i, j \in Done :
        /\ calls[i].name = GET_DATE_WITH_FORMAT
        /\ "tz" \in DOMAIN calls[i].arguments
        /\ calls[i].result.kind = "return"
        /\ calls[j].name = GET_DATE_WITH_FORMAT
        /\ calls[j].arguments = [format |-> Int42]
        /\ calls[j].result.kind = "raise"

====
